---- MODULE Spec2Model ----
(***************************************************************************)
(* Things 3 database export (src/export_things.py) and the Tk button       *)
(* handler that calls it (src/app.py), as a state machine.                 *)
(*                                                                         *)
(* Text is modelled as sequences of one-character strings, so that         *)
(* make_tag, the templates, print_notes and the tag suffix are computed    *)
(* character by character as the code computes them.  A nullable column    *)
(* is None (<<>>) or Some(v) (<<v>>).                                      *)
(***************************************************************************)
EXTENDS Integers, Sequences, FiniteSets, TLC

VARIABLES db, fs, caller, pc, con, stack, output, queries, log, ts_int, parsed

vars == <<db, fs, caller, pc, con, stack, output, queries, log, ts_int, parsed>>

None == <<>>
Some(v) == <<v>>

\* Python truthiness of a nullable integer column: None and 0 are falsy.
Truthy(x) == x # None /\ x[1] # 0

(***************************************************************************)
(* Text helpers (Python str operations used by the exporter).              *)
(***************************************************************************)

RECURSIVE Str(_)
\* The characters of s as one string (only used to state expected text).
Str(s) == IF s = <<>> THEN "" ELSE Head(s) \o Str(Tail(s))

\* str.replace(old, new) for one-character old and new.
Replace(s, old, new) == [i \in DOMAIN s |-> IF s[i] = old THEN new ELSE s[i]]

RECURSIVE Join(_, _)
\* sep.join(parts)
Join(sep, parts) ==
    IF parts = <<>> THEN <<>>
    ELSE IF Len(parts) = 1 THEN parts[1]
    ELSE parts[1] \o sep \o Join(sep, Tail(parts))

\* s[i:j] for 1-based inclusive bounds, empty when i > j.
Slice(s, i, j) == IF i > j THEN <<>> ELSE SubSeq(s, i, j)

\* s[from-1:].startswith(p)
StartsAt(s, p, from) ==
    /\ from >= 1
    /\ from + Len(p) - 1 <= Len(s)
    /\ SubSeq(s, from, from + Len(p) - 1) = p

\* The positions >= from at which p occurs in s.
Occurrences(s, p, from) == {i \in from..Len(s) : StartsAt(s, p, i)}

Min(S) == CHOOSE x \in S : \A y \in S : x <= y
Max(S) == CHOOSE x \in S : \A y \in S : x >= y

\* p occurs somewhere in s
Contains(s, p) == Occurrences(s, p, 1) # {}

RECURSIVE Split(_, _)
\* s.split(sep) for a one-character separator.
Split(s, sep) ==
    LET at == Occurrences(s, <<sep>>, 1)
    IN  IF at = {} THEN <<s>>
        ELSE <<Slice(s, 1, Min(at) - 1)>> \o Split(Slice(s, Min(at) + 1, Len(s)), sep)

Digit(n) == <<"0", "1", "2", "3", "4", "5", "6", "7", "8", "9">>[n + 1]

\* "%0<width>d" % n
RECURSIVE Digits(_, _)
Digits(n, width) ==
    IF width = 0 THEN <<>> ELSE Digits(n \div 10, width - 1) \o <<Digit(n % 10)>>

(***************************************************************************)
(* Literal text of the templates.                                          *)
(***************************************************************************)
kIdea == <<"I","d","e","a">>
kImportant == <<"I","m","p","o","r","t","a","n","t">>
kBlocked == <<"B","l","o","c","k","e","d">>
kTODO == <<"T","O","D","O">>
kIDEA == <<"I","D","E","A">>
kBLOCKED == <<"B","L","O","C","K","E","D">>
kLATER == <<"L","A","T","E","R">>
kNoArea == <<"n","o"," ","a","r","e","a">>
kInbox == <<"I","n","b","o","x">>
kNoteOpen == <<"<","n","o","t","e"," ","x","m","l",":","s","p","a","c","e","=","\"","p","r","e","s","e","r","v","e","\"",">">>
kAnchorOpen == <<"<","a"," ","h","r","e","f","=","\"">>
kAnchorMid == <<"\"",">">>
kAnchorClose == <<"<","/","a",">">>
kDeadline == <<"D","E","A","D","L","I","N","E",":"," ","<">>
kScheduled == <<"S","C","H","E","D","U","L","E","D",":"," ","<">>

(***************************************************************************)
(* TaskObjects.parse_db_date and the datetime.date it builds.              *)
(***************************************************************************)
DAYS == 128
MONTHS == 32 * DAYS
YEARS == 16 * MONTHS

IsLeap(y) == y % 4 = 0 /\ (y % 100 # 0 \/ y % 400 = 0)

DaysInMonth(y, m) ==
    IF m = 2 THEN (IF IsLeap(y) THEN 29 ELSE 28)
    ELSE IF m \in {4, 6, 9, 11} THEN 30 ELSE 31

\* datetime.date(year, month, day): ok = FALSE stands for the ValueError that
\* the constructor raises for a year, month or day out of range.
date(year, month, day) ==
    [ok |-> /\ year >= 1 /\ year <= 9999
            /\ month >= 1 /\ month <= 12
            /\ day >= 1 /\ day <= DaysInMonth(year, month),
     year |-> year, month |-> month, day |-> day]

\* parse_db_date without the second subtraction (line 184)
parse_db_date_no_month_subtraction(ts) ==
    LET year == ts \div YEARS
        ts1 == ts - year * YEARS
        month == ts1 \div MONTHS
        day == ts1 \div DAYS
    IN  date(year, month, day)

parse_db_date(ts) ==
    LET year == ts \div YEARS
        ts1 == ts - year * YEARS
        month == ts1 \div MONTHS
        ts2 == ts1 - month * MONTHS
        day == ts2 \div DAYS
    IN  date(year, month, day)

RECURSIVE DaysBeforeMonth(_, _)
DaysBeforeMonth(y, m) ==
    IF m = 1 THEN 0 ELSE DaysBeforeMonth(y, m - 1) + DaysInMonth(y, m - 1)

\* date.weekday(): Monday is 0.
Weekday(d) ==
    LET y1 == d.year - 1
        ord == y1 * 365 + y1 \div 4 - y1 \div 100 + y1 \div 400
               + DaysBeforeMonth(d.year, d.month) + d.day
    IN  (ord + 6) % 7

DayAbbr(w) ==
    << <<"M","o","n">>, <<"T","u","e">>, <<"W","e","d">>, <<"T","h","u">>,
       <<"F","r","i">>, <<"S","a","t">>, <<"S","u","n">> >>[w + 1]

\* d.strftime("%Y-%m-%d %a"), C locale, for the four-digit years of the model.
strftime(d) ==
    Digits(d.year, 4) \o <<"-">> \o Digits(d.month, 2) \o <<"-">>
        \o Digits(d.day, 2) \o <<" ">> \o DayAbbr(Weekday(d))

(***************************************************************************)
(* Row objects: RowObject, RowObjectWithTags, TaskObjects and the four     *)
(* concrete classes.  self is [klass, row, level, _tags, _priority,        *)
(* _blocked, _idea]; the three flags exist on Project and Task only and    *)
(* are carried, untouched, on the others.                                  *)
(***************************************************************************)
ACTIONGROUP == 2

New(klass, row, level) ==
    [klass |-> klass, row |-> row, level |-> level,
     _tags |-> <<>>, _priority |-> None, _blocked |-> None, _idea |-> FALSE]

IsTaskObject(self) == self.klass \in {"Project", "Task"}

Range(s) == {s[i] : i \in DOMAIN s}

\* indent_ one star short
indent_short(self) ==
    IF self.klass = "CheckListItem" THEN <<>>
    ELSE [i \in 1..self.level |-> "*"] \o <<" ">>

indent_(self) ==
    IF self.klass = "CheckListItem" THEN <<>>
    ELSE <<"*">> \o [i \in 1..self.level |-> "*"] \o <<" ">>

notes_indent(self) == <<>>

tags(self) ==
    IF self.klass = "CheckListItem" THEN <<>>
    ELSE IF Len(self._tags) = 0 THEN <<>>
    ELSE <<" ", ":">> \o Join(<<":">>, self._tags) \o <<":">>

make_tag(title) == Replace(Replace(title, " ", "_"), "-", "_")

\* RowObjectWithTags.add_tag without the membership test
RowObjectWithTags_add_tag_always(self, tag) == [self EXCEPT !._tags = Append(@, tag)]

RowObjectWithTags_add_tag(self, tag) ==
    IF tag \in Range(self._tags) THEN self
    ELSE [self EXCEPT !._tags = Append(@, tag)]

\* TaskObjects.add_tag without the return after "Important"
TaskObjects_add_tag_fallthrough(self, tag) ==
    IF tag = kIdea THEN [self EXCEPT !._idea = TRUE]
    ELSE IF tag = kImportant
    THEN RowObjectWithTags_add_tag([self EXCEPT !._priority = Some(1)], tag)
    ELSE IF tag = kBlocked THEN [self EXCEPT !._blocked = Some(TRUE)]
    ELSE RowObjectWithTags_add_tag(self, tag)

TaskObjects_add_tag(self, tag) ==
    IF tag = kIdea THEN [self EXCEPT !._idea = TRUE]
    ELSE IF tag = kImportant THEN [self EXCEPT !._priority = Some(1)]
    ELSE IF tag = kBlocked THEN [self EXCEPT !._blocked = Some(TRUE)]
    ELSE RowObjectWithTags_add_tag(self, tag)

\* self.add_tag(tag): the override applies to Project and Task.
add_tag(self, tag) ==
    IF IsTaskObject(self) THEN TaskObjects_add_tag(self, tag)
    ELSE RowObjectWithTags_add_tag(self, tag)

RECURSIVE load_tags_from_db(_, _)
\* titles: the title column of the rows of TAGS_QUERY, in cursor order.
load_tags_from_db(self, titles) ==
    IF titles = <<>> THEN self
    ELSE load_tags_from_db(add_tag(self, make_tag(Head(titles))), Tail(titles))

org_todo_keyword(self) ==
    IF self._idea THEN kIDEA
    ELSE IF self._blocked # None THEN kBLOCKED
    ELSE IF self.row.start = Some(2) THEN kLATER
    ELSE kTODO

org_priority_cookie(self) ==
    IF self._priority # None
    THEN <<" ", "[", "#">> \o <<Digit(self._priority[1])>> \o <<"]">>
    ELSE <<>>

checkbox_status(self) == IF self.row.status > 0 THEN <<"X">> ELSE <<" ">>

AREA_TEMPLATE(self) ==
    <<"\n">> \o indent_(self) \o self.row.title \o <<":">> \o tags(self)

PROJECT_TEMPLATE(self) ==
    <<"\n">> \o indent_(self) \o org_todo_keyword(self) \o org_priority_cookie(self)
        \o <<" ">> \o self.row.title \o tags(self)

TASK_TEMPLATE(self) ==
    indent_(self) \o org_todo_keyword(self) \o org_priority_cookie(self)
        \o <<" ">> \o self.row.title \o tags(self)

ACTIONGROUP_TEMPLATE(self) ==
    indent_(self) \o kTODO \o <<" ">> \o self.row.title \o <<":">>

CHECKLIST_ITEM_TEMPLATE(self) ==
    indent_(self) \o <<"-", " ", "[">> \o checkbox_status(self) \o <<"]", " ">>
        \o self.row.title \o tags(self)

\* print_attributes: the texts printed, and whether parse_db_date raised
\* (after which nothing more is printed).
print_attributes(self) ==
    LET dl == self.row.deadline
        sd == self.row.startDate
        d1 == parse_db_date(dl[1])
        d2 == parse_db_date(sd[1])
        first == IF Truthy(dl) /\ d1.ok THEN <<kDeadline \o strftime(d1) \o <<">">> >>
                 ELSE <<>>
    IN  IF Truthy(dl) /\ ~d1.ok THEN [printed |-> <<>>, raised |-> TRUE]
        ELSE IF Truthy(sd) /\ ~d2.ok THEN [printed |-> first, raised |-> TRUE]
        ELSE IF Truthy(sd)
             THEN [printed |-> first \o <<kScheduled \o strftime(d2) \o <<">">> >>,
                   raised |-> FALSE]
        ELSE [printed |-> first, raised |-> FALSE]

RECURSIVE URL_sub(_)
\* URL.sub(lambda m: m.group('url'), line): the leftmost anchor, its url
\* group greedy, its text lazy, replaced by the url; then the rest.
URL_sub(line) ==
    LET Mids(i) == {j \in Occurrences(line, kAnchorMid, i + Len(kAnchorOpen)) :
                       Occurrences(line, kAnchorClose, j + Len(kAnchorMid)) # {}}
        starts == {i \in Occurrences(line, kAnchorOpen, 1) : Mids(i) # {}}
    IN  IF starts = {} THEN line
        ELSE LET i == Min(starts)
                 j == Max(Mids(i))
                 k == Min(Occurrences(line, kAnchorClose, j + Len(kAnchorMid)))
             IN  Slice(line, 1, i - 1) \o Slice(line, i + Len(kAnchorOpen), j - 1)
                     \o URL_sub(Slice(line, k + Len(kAnchorClose), Len(line)))

NOTE_PREFIX_LEN == 27
NOTE_SUFFIX_LEN == 7

\* print_notes: the texts printed, one per line of the notes.
print_notes(self) ==
    LET raw == self.row.notes[1]
        notes == IF StartsAt(raw, kNoteOpen, 1)
                 THEN Slice(raw, NOTE_PREFIX_LEN + 1, Len(raw) - NOTE_SUFFIX_LEN)
                 ELSE raw
        lines == Split(notes, "\n")
    IN  [i \in DOMAIN lines |-> notes_indent(self) \o URL_sub(lines[i])]

(***************************************************************************)
(* The database.  db has the tables the queries read, each a set of rows:  *)
(*   TMArea          [uuid, title, index]                                  *)
(*   TMTask          [uuid, type, status, trashed, title, notes, area,     *)
(*                    project, heading, deadline, startDate, start,        *)
(*                    checklistItemsCount, index]                          *)
(*   TMChecklistItem [uuid, title, status, task, index]                    *)
(*   TMTag [uuid, title]   TMTaskTag [tasks, tags]   TMAreaTag [areas, tags]*)
(* hasTables is FALSE for the empty file sqlite3.connect creates at a path *)
(* that did not exist: every query on it raises OperationalError.          *)
(* A query is the set of row sequences its cursor may yield: the rows the  *)
(* WHERE clause keeps, in any order the ORDER BY allows (any order at all  *)
(* without one).                                                           *)
(***************************************************************************)
\* a may come before b under the ORDER BY clause order
Before(order, a, b) ==
    IF order = "index" THEN a.index <= b.index
    ELSE IF order = "type, index"
    THEN a.type < b.type \/ (a.type = b.type /\ a.index <= b.index)
    ELSE TRUE

RECURSIVE Orderings(_, _, _)
\* The sequences of the rows of S that are sorted by order (ties, and
\* queries without ORDER BY: every order), each appended to done.
Orderings(S, order, done) ==
    IF S = {} THEN {done}
    ELSE UNION {Orderings(S \ {x}, order, Append(done, x)) :
                    x \in {m \in S : \A y \in S : Before(order, m, y)}}

\* Area.QUERY without its ORDER BY clause
Area_QUERY_unordered(d) == Orderings(d.TMArea, "", <<>>)

Area_QUERY(d) == Orderings(d.TMArea, "index", <<>>)

Titles(rows) == [i \in DOMAIN rows |-> rows[i][2].title]

Area_TAGS_QUERY(d, uuid) ==
    LET joined == {r \in d.TMAreaTag \X d.TMTag :
                      r[1].areas = uuid /\ r[1].tags = r[2].uuid}
    IN  {Titles(rows) : rows \in Orderings(joined, "", <<>>)}

TAGS_QUERY(d, uuid) ==
    LET joined == {r \in d.TMTaskTag \X d.TMTag :
                      r[1].tasks = uuid /\ r[1].tags = r[2].uuid}
    IN  {Titles(rows) : rows \in Orderings(joined, "", <<>>)}

\* PROJECTS_IN_AREA without its area condition
PROJECTS_IN_AREA_any(d, uuid) ==
    Orderings({t \in d.TMTask : /\ t.type = 1
                                /\ t.trashed = 0
                                /\ t.status < 2}, "index", <<>>)

PROJECTS_IN_AREA(d, uuid) ==
    Orderings({t \in d.TMTask : /\ t.type = 1
                                /\ t.area = Some(uuid)
                                /\ t.trashed = 0
                                /\ t.status < 2}, "index", <<>>)

PROJECTS_WITHOUT_AREA(d) ==
    Orderings({t \in d.TMTask : /\ t.type = 1
                                /\ t.area = None
                                /\ t.trashed = 0
                                /\ t.status < 2}, "index", <<>>)

\* TASKS_IN_PROJECT with the status bound off by one
TASKS_IN_PROJECT_canceled(d, uuid) ==
    Orderings({t \in d.TMTask : /\ t.type # 1
                                /\ t.project = Some(uuid)
                                /\ t.trashed = 0
                                /\ t.status <= 2}, "type, index", <<>>)

TASKS_IN_PROJECT(d, uuid) ==
    Orderings({t \in d.TMTask : /\ t.type # 1
                                /\ t.project = Some(uuid)
                                /\ t.trashed = 0
                                /\ t.status < 2}, "type, index", <<>>)

TASKS_IN_AREA_WITHOUT_PROJECT(d, uuid) ==
    Orderings({t \in d.TMTask : /\ t.type # 1
                                /\ t.area = Some(uuid)
                                /\ t.project = None
                                /\ t.trashed = 0
                                /\ t.status < 2}, "type, index", <<>>)

TASKS_IN_INBOX(d) ==
    Orderings({t \in d.TMTask : /\ t.type # 1
                                /\ t.project = None
                                /\ t.area = None
                                /\ t.heading = None
                                /\ t.trashed = 0
                                /\ t.status < 2}, "index", <<>>)

TASKS_IN_ACTION_GROUPS(d, uuid) ==
    Orderings({t \in d.TMTask : /\ t.type = 0
                                /\ t.heading = Some(uuid)
                                /\ t.trashed = 0
                                /\ t.status < 2}, "index", <<>>)

items_of_task(d, uuid) ==
    Orderings({i \in d.TMChecklistItem : i.task = uuid}, "index", <<>>)

\* The two rows the exporter makes up: the root area and the Inbox project.
no_area == [uuid |-> "NULL", title |-> kNoArea]

inbox ==
    [uuid |-> "NULL", title |-> kInbox, deadline |-> None, startDate |-> None,
     notes |-> None, start |-> None]

(***************************************************************************)
(* Program state.                                                          *)
(*   fs       what is at the database path: "file", "absent" (nothing, but *)
(*            sqlite can create it) or "nodir" (nothing, and it cannot)    *)
(*   caller   "none", "gui" (App.cmd_things2tp) or "cli" (__main__)        *)
(*   pc       "idle", "export" (export entered), "running" (the walk),     *)
(*            "exported" (export returned), "raised" (an exception left    *)
(*            export), "returned" (the caller is done)                     *)
(*   con      "none", "open", "closed"                                     *)
(*   stack    the call stack of the walk, innermost frame last             *)
(*   output   one record per print call, in order                          *)
(*   queries  one record per cursor.execute call, in order                 *)
(*   log      the records the GUI logger received                          *)
(***************************************************************************)
Frame(fn, at, klass, rows, level, parent, uuid) ==
    [fn |-> fn, at |-> at, klass |-> klass, rows |-> rows, level |-> level,
     parent |-> parent, uuid |-> uuid]

LoopFrame(klass, rows, level, parent) ==
    Frame("loop", "next", klass, rows, level, parent, "")

Top == stack[Len(stack)]
Below == SubSeq(stack, 1, Len(stack) - 1)

\* One print call: kind is the class of the object printed ("ActionGroup"
\* for a Task of type 2), or "attr"/"notes" for the lines under it; parent is
\* the position in output of the line of the enclosing object (0: none);
\* loaded is what TAGS_QUERY returned for the object, and suffix the text the
\* template put in for %(tags)s (empty for a template without it).
Printed(kind, self, parent, text, loaded) ==
    [kind |-> kind, uuid |-> self.row.uuid, level |-> self.level,
     parent |-> parent, text |-> text, loaded |-> loaded,
     suffix |-> IF kind \in {"Area", "Project", "Task", "CheckListItem"}
                THEN tags(self) ELSE <<>>]

Executed(q, arg) == [q |-> q, arg |-> arg]

Sub(kind, self, at, texts) ==
    [i \in DOMAIN texts |-> Printed(kind, self, at, texts[i], <<>>)]

NotesTruthy(n) == n # None /\ n[1] # <<>>

NotesOf(self, at) ==
    IF NotesTruthy(self.row.notes) THEN Sub("notes", self, at, print_notes(self))
    ELSE <<>>

FORMATS == {"area", "project", "all"}

cmd_things2tp ==
    /\ pc = "idle"
    /\ caller' = "gui"
    /\ \E selected \in BOOLEAN, fmt \in FORMATS \cup {"other"} :
        LET l1 == <<"INFO starting conversion">>
                    \o (IF selected THEN <<>> ELSE <<"INFO default database">>)
        IN  IF fs # "file"
            THEN /\ log' = log \o l1 \o <<"ERROR database does not exist">>
                 /\ pc' = "returned"
            ELSE IF fmt \notin FORMATS
            THEN /\ log' = log \o l1 \o <<"INFO database", "INFO target format",
                                         "ERROR unknown output format">>
                 /\ pc' = "returned"
            ELSE IF fmt = "all"
            THEN \* RowObject.FILE_TMPL does not exist: AttributeError leaves
                 \* the handler before export is called
                 /\ log' = log \o l1 \o <<"INFO database", "INFO target format">>
                 /\ pc' = "returned"
            ELSE /\ log' = log \o l1 \o <<"INFO database", "INFO target format",
                                         "INFO target">>
                 /\ pc' = "export"
    /\ UNCHANGED <<db, fs, con, stack, output, queries, ts_int, parsed>>

cmd_things2tp_return ==
    /\ caller = "gui"
    /\ pc \in {"exported", "raised"}
    /\ log' = log \o <<IF pc = "raised" THEN "ERROR traceback"
                       ELSE "INFO export finished", "INFO ready">>
    /\ pc' = "returned"
    /\ UNCHANGED <<db, fs, caller, con, stack, output, queries, ts_int, parsed>>

main ==
    /\ pc = "idle"
    /\ caller' = "cli"
    /\ pc' = "export"
    /\ UNCHANGED <<db, fs, con, stack, output, queries, log, ts_int, parsed>>

main_return ==
    /\ caller = "cli"
    /\ pc \in {"exported", "raised"}
    /\ pc' = "returned"
    /\ UNCHANGED <<db, fs, caller, con, stack, output, queries, log, ts_int, parsed>>

\* export, lines 38-44: connect, then the call no_area.export()
export_connect ==
    /\ pc = "export"
    /\ IF fs = "nodir"
       THEN /\ pc' = "raised"
            /\ UNCHANGED <<fs, con, stack>>
       ELSE /\ con' = "open"
            /\ fs' = "file"
            /\ pc' = "running"
            /\ stack' = <<Frame("export", "areas", "", <<>>, 0, 0, ""),
                          LoopFrame("Area", <<no_area>>, 0, 0)>>
    /\ UNCHANGED <<db, caller, output, queries, log, ts_int, parsed>>

\* export, line 45: the Area.QUERY cursor
export_areas ==
    /\ pc = "running"
    /\ Top.fn = "export" /\ Top.at = "areas"
    /\ queries' = Append(queries, Executed("Area.QUERY", ""))
    /\ IF ~db.hasTables
       THEN /\ pc' = "raised"
            /\ stack' = <<>>
       ELSE /\ \E rows \in Area_QUERY(db) :
                stack' = <<[Top EXCEPT !.at = "close"], LoopFrame("Area", rows, 0, 0)>>
            /\ pc' = pc
    /\ UNCHANGED <<db, fs, caller, con, output, log, ts_int, parsed>>

\* export, line 48
export_close ==
    /\ pc = "running"
    /\ Top.fn = "export" /\ Top.at = "close"
    /\ con' = "closed"
    /\ stack' = <<>>
    /\ pc' = "exported"
    /\ UNCHANGED <<db, fs, caller, output, queries, log, ts_int, parsed>>

\* a for loop over a cursor ends (export, Area.export, find_and_export_items)
loop_end ==
    /\ pc = "running"
    /\ Top.fn = "loop" /\ Top.rows = <<>>
    /\ stack' = Below
    /\ UNCHANGED <<db, fs, caller, pc, con, output, queries, log, ts_int, parsed>>

IsNext(klass) == pc = "running" /\ Top.fn = "loop" /\ Top.klass = klass /\ Top.rows # <<>>

Rest == Append(Below, [Top EXCEPT !.rows = Tail(@)])

\* Call with the loop resumed before the callee runs: the next sibling is
\* exported ahead of the children.
Call_siblings_first(frames) == Below \o frames \o <<[Top EXCEPT !.rows = Tail(@)]>>

\* The stack once the object taken from the loop on top has called into
\* frames (the last of them runs first): the loop resumes when they are done.
Call(frames) == Rest \o frames

\* Task.export without the guard of line 323
HasChecklist_unguarded(self) == TRUE

\* Task.export, line 323
HasChecklist(self) == Truthy(self.row.checklistItemsCount)

\* Area.export up to its first call (inbox.export or find_and_export_items)
Area_export ==
    /\ IsNext("Area")
    /\ LET self0 == New("Area", Head(Top.rows), Top.level)
           uuid == self0.row.uuid
           q1 == Append(queries, Executed("Area.TAGS_QUERY", uuid))
           at == Len(output) + 1
       IN  IF ~db.hasTables
           THEN /\ pc' = "raised"
                /\ stack' = <<>>
                /\ queries' = q1
                /\ UNCHANGED output
           ELSE \E titles \in Area_TAGS_QUERY(db, uuid) :
                LET self == load_tags_from_db(self0, titles)
                    cont == Frame("Area.export", "projects", "", <<>>, self.level, at, uuid)
                IN  /\ output' = Append(output,
                            Printed("Area", self, Top.parent, AREA_TEMPLATE(self), titles))
                    /\ pc' = pc
                    /\ IF uuid = "NULL"
                       THEN /\ stack' = Call(<<cont,
                                   LoopFrame("Project", <<inbox>>, self.level + 1, at)>>)
                            /\ queries' = q1
                       ELSE \E rows \in TASKS_IN_AREA_WITHOUT_PROJECT(db, uuid) :
                            /\ stack' = Call(<<cont,
                                   LoopFrame("Task", rows, self.level + 1, at)>>)
                            /\ queries' = Append(q1,
                                   Executed("TASKS_IN_AREA_WITHOUT_PROJECT", uuid))
    /\ UNCHANGED <<db, fs, caller, con, log, ts_int, parsed>>

\* Area.export, lines 228-230: the cursor over the area's projects
Area_projects ==
    /\ pc = "running"
    /\ Top.fn = "Area.export"
    /\ \E rows \in (IF Top.uuid = "NULL" THEN PROJECTS_WITHOUT_AREA(db)
                    ELSE PROJECTS_IN_AREA(db, Top.uuid)) :
        stack' = Append(Below, LoopFrame("Project", rows, 1, Top.parent))
    /\ queries' = Append(queries,
            IF Top.uuid = "NULL" THEN Executed("PROJECTS_WITHOUT_AREA", "")
            ELSE Executed("PROJECTS_IN_AREA", Top.uuid))
    /\ UNCHANGED <<db, fs, caller, pc, con, output, log, ts_int, parsed>>

Project_export ==
    /\ IsNext("Project")
    /\ LET self0 == New("Project", Head(Top.rows), Top.level)
           uuid == self0.row.uuid
           q1 == Append(queries, Executed("TAGS_QUERY", uuid))
           at == Len(output) + 1
       IN  \E titles \in TAGS_QUERY(db, uuid) :
           LET self == load_tags_from_db(self0, titles)
               attrs == print_attributes(self)
               out1 == Append(output,
                          Printed("Project", self, Top.parent, PROJECT_TEMPLATE(self), titles))
                       \o Sub("attr", self, at, attrs.printed)
           IN  IF attrs.raised
               THEN /\ output' = out1
                    /\ queries' = q1
                    /\ pc' = "raised"
                    /\ stack' = <<>>
               ELSE /\ output' = out1 \o NotesOf(self, at)
                    /\ pc' = pc
                    /\ \E rows \in (IF uuid = "NULL" THEN TASKS_IN_INBOX(db)
                                    ELSE TASKS_IN_PROJECT(db, uuid)) :
                        stack' = Call(<<LoopFrame("Task", rows, self.level + 1, at)>>)
                    /\ queries' = Append(q1,
                            IF uuid = "NULL" THEN Executed("TASKS_IN_INBOX", "")
                            ELSE Executed("TASKS_IN_PROJECT", uuid))
    /\ UNCHANGED <<db, fs, caller, con, log, ts_int, parsed>>

Task_export ==
    /\ IsNext("Task")
    /\ LET self0 == New("Task", Head(Top.rows), Top.level)
           uuid == self0.row.uuid
           q1 == Append(queries, Executed("TAGS_QUERY", uuid))
           at == Len(output) + 1
       IN  \E titles \in TAGS_QUERY(db, uuid) :
           LET self == load_tags_from_db(self0, titles)
               attrs == print_attributes(self)
               out1 == Append(output,
                          Printed("Task", self, Top.parent, TASK_TEMPLATE(self), titles))
                       \o Sub("attr", self, at, attrs.printed)
           IN  IF self.row.type = ACTIONGROUP
               THEN /\ output' = Append(output,
                           Printed("ActionGroup", self, Top.parent,
                                   ACTIONGROUP_TEMPLATE(self), titles))
                    /\ pc' = pc
                    /\ \E rows \in TASKS_IN_ACTION_GROUPS(db, uuid) :
                        stack' = Call(<<LoopFrame("Task", rows, self.level + 1, at)>>)
                    /\ queries' = Append(q1, Executed("TASKS_IN_ACTION_GROUPS", uuid))
               ELSE IF attrs.raised
               THEN /\ output' = out1
                    /\ queries' = q1
                    /\ pc' = "raised"
                    /\ stack' = <<>>
               ELSE /\ output' = out1 \o NotesOf(self, at)
                    /\ pc' = pc
                    /\ IF HasChecklist(self)
                       THEN /\ \E rows \in items_of_task(db, uuid) :
                                stack' = Call(<<LoopFrame("CheckListItem", rows,
                                                          self.level + 1, at)>>)
                            /\ queries' = Append(q1, Executed("items_of_task", uuid))
                       ELSE /\ stack' = Rest
                            /\ queries' = q1
    /\ UNCHANGED <<db, fs, caller, con, log, ts_int, parsed>>

CheckListItem_export ==
    /\ IsNext("CheckListItem")
    /\ LET self == New("CheckListItem", Head(Top.rows), Top.level)
       IN  output' = Append(output,
               Printed("CheckListItem", self, Top.parent, CHECKLIST_ITEM_TEMPLATE(self), <<>>))
    /\ stack' = Rest
    /\ UNCHANGED <<db, fs, caller, pc, con, queries, log, ts_int, parsed>>

(***************************************************************************)
(* Databases of the model.                                                 *)
(***************************************************************************)
AreaRow(uuid, title, index) == [uuid |-> uuid, title |-> title, index |-> index]

\* An open, untrashed TMTask row without notes, dates or checklist.
TaskRow(uuid, type, title, area, project, heading, index) ==
    [uuid |-> uuid, type |-> type, status |-> 0, trashed |-> 0, title |-> title,
     notes |-> None, area |-> area, project |-> project, heading |-> heading,
     deadline |-> None, startDate |-> None, start |-> Some(1),
     checklistItemsCount |-> Some(0), index |-> index]

ItemRow(uuid, title, status, task, index) ==
    [uuid |-> uuid, title |-> title, status |-> status, task |-> task, index |-> index]

Database(areas, tasks, items, tagrows, tasktags, areatags) ==
    [hasTables |-> TRUE, TMArea |-> areas, TMTask |-> tasks, TMChecklistItem |-> items,
     TMTag |-> tagrows, TMTaskTag |-> tasktags, TMAreaTag |-> areatags]

\* What a connection sees at a path where sqlite3.connect created the file.
NoTables ==
    [hasTables |-> FALSE, TMArea |-> {}, TMTask |-> {}, TMChecklistItem |-> {},
     TMTag |-> {}, TMTaskTag |-> {}, TMAreaTag |-> {}]

tWork == <<"W","o","r","k">>
tLaunch == <<"L","a","u","n","c","h">>
tShipIt == <<"S","h","i","p"," ","i","t">>

\* Area "Work" > Project "Launch" > Task "Ship it" tagged "Important".
FixtureDB ==
    Database({AreaRow("W", tWork, 0)},
             {TaskRow("L", 1, tLaunch, Some("W"), None, None, 0),
              TaskRow("S", 0, tShipIt, None, Some("L"), None, 0)},
             {},
             {[uuid |-> "g1", title |-> kImportant]},
             {[tasks |-> "S", tags |-> "g1"]},
             {})

\* The database the families below vary: Area A1 > Project P1 > {Task T1
\* with two checklist items, ActionGroup H1 > Task T2}.
BaseAreas == {AreaRow("A1", <<"A","1">>, 0)}

BaseTasks ==
    {TaskRow("P1", 1, <<"P","1">>, Some("A1"), None, None, 0),
     [TaskRow("T1", 0, <<"T","1">>, None, Some("P1"), None, 0)
         EXCEPT !.checklistItemsCount = Some(2)],
     TaskRow("H1", 2, <<"H","1">>, None, Some("P1"), None, 0),
     TaskRow("T2", 0, <<"T","2">>, None, None, Some("H1"), 0)}

BaseItems ==
    {ItemRow("K1", <<"K","1">>, 0, "T1", 1), ItemRow("K2", <<"K","2">>, 3, "T1", 0)}

BaseDB == Database(BaseAreas, BaseTasks, BaseItems, {}, {}, {})

\* tasks with the columns in DOMAIN cols of the row of uuid u set to cols
Changed(tasks, u, cols) ==
    {IF t.uuid = u
     THEN [c \in DOMAIN t |-> IF c \in DOMAIN cols THEN cols[c] ELSE t[c]]
     ELSE t : t \in tasks}

(* Hierarchy: a second area A2, and two rows X and Y that take every         *)
(* combination of type and of the area, project and heading columns; Y's    *)
(* index is X's or the next.                                                *)
Placements ==
    [type : {0, 1, 2}, area : {None, Some("A1"), Some("A2")},
     project : {None, Some("P1")}, heading : {None, Some("H1")}]

Placed(uuid, title, index, p) ==
    TaskRow(uuid, p.type, title, p.area, p.project, p.heading, index)

TreeDBs ==
    {Database(BaseAreas \cup {AreaRow("A2", <<"A","2">>, 1)},
              BaseTasks \cup {[Placed("X", <<"X">>, 1, px)
                                  EXCEPT !.checklistItemsCount = Some(1)],
                              Placed("Y", <<"Y">>, iy, py)},
              BaseItems \cup {ItemRow("K3", <<"K","3">>, 0, "X", 0)},
              {}, {}, {}) : px \in Placements, py \in Placements, iy \in {1, 2}}

(* Filters: up to MaxDeviating rows are trashed or not open.                *)
MaxDeviating == 2

Flags == [trashed : {0, 1}, status : {0, 1, 2, 3}]

\* the rows of tasks, those in DOMAIN f with the flags f gives them
Flagged(tasks, f) ==
    {IF t.uuid \in DOMAIN f
     THEN [t EXCEPT !.trashed = f[t.uuid].trashed, !.status = f[t.uuid].status]
     ELSE t : t \in tasks}

FilterDBs ==
    {Database(BaseAreas, Flagged(BaseTasks, f), BaseItems, {}, {}, {}) :
        f \in UNION {[S -> Flags \ {[trashed |-> 0, status |-> 0]}] :
                        S \in {S \in SUBSET {"P1", "T1", "H1", "T2"} :
                                  Cardinality(S) <= MaxDeviating}}}

(* Tags: one object is assigned up to MaxTags of the tags below.            *)
MaxTags == 3

TagRows ==
    {[uuid |-> "g1", title |-> kIdea],
     [uuid |-> "g2", title |-> kImportant],
     [uuid |-> "g3", title |-> kBlocked],
     [uuid |-> "g4", title |-> <<"e","r","r","a","n","d">>],
     [uuid |-> "g5", title |-> <<"a","t"," ","h","o","m","e">>],
     [uuid |-> "g6", title |-> <<"a","t","-","h","o","m","e">>]}

TagSets == {G \in SUBSET {g.uuid : g \in TagRows} : Cardinality(G) <= MaxTags}

TagDBs ==
    {Database(BaseAreas, BaseTasks, BaseItems, TagRows,
              {[tasks |-> u, tags |-> g] : g \in G}, {}) :
        u \in {"P1", "T1", "H1"}, G \in TagSets}
    \cup
    {Database(BaseAreas, BaseTasks, BaseItems, TagRows, {},
              {[areas |-> "A1", tags |-> g] : g \in G}) : G \in TagSets}

(* Checklists: the count column of T1 and the rows that reference T1 vary    *)
(* independently.                                                           *)
MaxItems == 2

ItemIds == <<"K1", "K2", "K3", "K4">>

ItemsOfT1(n) ==
    {ItemRow(ItemIds[i], <<"K", Digit(i)>>, IF i % 2 = 0 THEN 3 ELSE 0, "T1", n - i) :
        i \in 1..n}

ChecklistDBs ==
    {Database(BaseAreas,
              Changed(BaseTasks, "T1", [checklistItemsCount |-> c]),
              ItemsOfT1(n), {}, {}, {}) :
        c \in {None, Some(0), Some(1), Some(2)}, n \in 0..MaxItems}

(* Dates and the start column of P1 and T1.  The packed values: none, 0,    *)
(* 2021-03-14, 2024-02-29, and two that decode to no calendar date.         *)
DateSamples ==
    {None, Some(0), Some(2021 * YEARS + 3 * MONTHS + 14 * DAYS),
     Some(2024 * YEARS + 2 * MONTHS + 29 * DAYS),
     Some(2023 * YEARS + 2 * MONTHS + 29 * DAYS), Some(2021 * YEARS)}

DateDBs ==
    {Database(BaseAreas,
              Changed(Changed(BaseTasks, "T1",
                              [deadline |-> d1, startDate |-> d2, start |-> st]),
                      "P1", [deadline |-> d2, start |-> st]),
              BaseItems, {}, {}, {}) :
        d1 \in DateSamples, d2 \in DateSamples, st \in {None, Some(1), Some(2)}}

(* Notes of P1, T1 and H1.                                                  *)
NoteSamples ==
    {None, Some(<<>>),
     Some(<<"o","n","e","\n","t","w","o">>),
     Some(<<"<","n","o","t","e"," ","x","m","l",":","s","p","a","c","e","=","\"","p","r","e","s","e","r","v","e","\"",">","i","n","\n","s","i","d","e","<","/","n","o","t","e",">">>),
     Some(<<"s","e","e"," ","<","a"," ","h","r","e","f","=","\"","u","1","\"",">","t","<","/","a",">"," ","o","r"," ","<","a"," ","h","r","e","f","=","\"","u","2","\"",">","v","<","/","a",">",".">>),
     Some(<<"<","n","o","t","e"," ","x","m","l",":","s","p","a","c","e","=","\"","p","r","e","s","e","r","v","e","\"",">","<","/","n","o","t","e",">">>)}

NotesDBs ==
    {Database(BaseAreas,
              Changed(Changed(BaseTasks, "T1", [notes |-> n1]), "H1", [notes |-> n2]),
              BaseItems, {}, {}, {}) :
        n1 \in NoteSamples, n2 \in {None, Some(<<"o","n","e","\n","t","w","o">>)}}
    \cup
    {Database(BaseAreas,
              Changed(BaseTasks, "P1", [notes |-> n1]),
              BaseItems, {}, {}, {}) : n1 \in NoteSamples}

(* Areas: three areas whose indexes take every combination of 0, 1 and 2,  *)
(* ties included, over a project without area and a task of the Inbox.     *)
AreaIndexDBs ==
    {Database({AreaRow("A1", <<"A","1">>, i1), AreaRow("A2", <<"A","2">>, i2),
               AreaRow("A3", <<"A","3">>, i3)},
              BaseTasks \cup {TaskRow("X", 1, <<"X">>, None, None, None, 0),
                              TaskRow("Y", 0, <<"Y">>, None, None, None, 0)},
              BaseItems, {}, {}, {}) :
        i1 \in {0, 1, 2}, i2 \in {0, 1, 2}, i3 \in {0, 1, 2}}

Databases ==
    {FixtureDB} \cup TreeDBs \cup FilterDBs \cup TagDBs \cup ChecklistDBs
        \cup DateDBs \cup NotesDBs \cup AreaIndexDBs

Init ==
    /\ \/ fs = "file" /\ db \in Databases
       \/ fs \in {"absent", "nodir"} /\ db = NoTables
    /\ caller = "none"
    /\ pc = "idle"
    /\ con = "none"
    /\ stack = <<>>
    /\ output = <<>>
    /\ queries = <<>>
    /\ log = <<>>
    /\ ts_int = 0
    /\ parsed = None

Next ==
    \/ cmd_things2tp
    \/ cmd_things2tp_return
    \/ main
    \/ main_return
    \/ export_connect
    \/ export_areas
    \/ export_close
    \/ loop_end
    \/ Area_export
    \/ Area_projects
    \/ Project_export
    \/ Task_export
    \/ CheckListItem_export

Spec == Init /\ [][Next]_vars

(***************************************************************************)
(* parse_db_date on its own: ts_int is drawn from the packed integers of   *)
(* SampleYears, every month field 0..15, every day field 0..31, with the   *)
(* low seven bits clear or not; parsed is None until the function has run. *)
(***************************************************************************)
SampleYears == {0, 1, 1900, 2000, 2023, 2024, 9999, 10000}

PackedInts ==
    {y * YEARS + m * MONTHS + d * DAYS + low :
        y \in SampleYears, m \in 0..15, d \in 0..31, low \in {0, 1, 127}}

InitDate ==
    /\ ts_int \in PackedInts
    /\ parsed = None
    /\ db = NoTables
    /\ fs = "absent"
    /\ caller = "none"
    /\ pc = "date"
    /\ con = "none"
    /\ stack = <<>>
    /\ output = <<>>
    /\ queries = <<>>
    /\ log = <<>>

call_parse_db_date ==
    /\ pc = "date"
    /\ parsed = None
    /\ parsed' = Some(parse_db_date(ts_int))
    /\ UNCHANGED <<db, fs, caller, pc, con, stack, output, queries, log, ts_int>>

NextDate == call_parse_db_date

SpecDate == InitDate /\ [][NextDate]_vars

\* sys.stdout after the run: every printed text followed by a newline.
RECURSIVE Stdout(_)
Stdout(out) ==
    IF out = <<>> THEN <<>>
    ELSE Head(out).text \o <<"\n">> \o Stdout(Tail(out))

(***************************************************************************)
(* Properties.                                                             *)
(***************************************************************************)
ObjectKinds == {"Area", "Project", "Task", "ActionGroup", "CheckListItem"}

RECURSIVE Ancestors(_, _)
\* the positions in out of the lines of the objects that enclose line k
Ancestors(out, k) ==
    IF out[k].parent = 0 THEN {}
    ELSE {out[k].parent} \cup Ancestors(out, out[k].parent)

TaskRowOf(uuid) == CHOOSE t \in db.TMTask : t.uuid = uuid
ItemRowOf(uuid) == CHOOSE i \in db.TMChecklistItem : i.uuid = uuid

\* the lines of database rows (the root area and the Inbox are made up)
IsRowLine(e) == e.uuid # "NULL"

\* C1: the line of an object is printed before the lines of everything under
\* it, and all of those before the line of its next sibling: every line
\* comes after the line of its parent, and every line between the two is
\* under that parent as well.
C1_PreOrder ==
    \A k \in DOMAIN output :
        /\ output[k].parent < k
        /\ \A j \in (output[k].parent + 1)..(k - 1) :
               output[k].parent = 0 \/ output[k].parent \in Ancestors(output, j)
        /\ \A j \in 1..(k - 1) :
               (/\ output[j].parent = output[k].parent
                /\ output[j].kind \in ObjectKinds
                /\ output[k].kind \in ObjectKinds)
               => \A i \in DOMAIN output : j \in Ancestors(output, i) => i < k

\* C1 witness: a finished run in which an object with a line under it is
\* followed by a sibling.
C1_Witness ==
    /\ pc = "exported"
    /\ \E j, k \in DOMAIN output :
        /\ j + 1 < k
        /\ output[j].parent = output[k].parent
        /\ output[j].kind = "ActionGroup"
        /\ output[k].kind = "ActionGroup"
        /\ output[j + 1].kind = "Task"

\* C2 as claimed: every row whose line is printed, checklist items included,
\* is untrashed (where the table has the column) and has status < 2.
C2_AsClaimed ==
    \A k \in DOMAIN output :
        LET e == output[k]
        IN  /\ (e.kind \in {"Project", "Task", "ActionGroup"} /\ IsRowLine(e))
                => TaskRowOf(e.uuid).trashed = 0 /\ TaskRowOf(e.uuid).status < 2
            /\ e.kind = "CheckListItem" => ItemRowOf(e.uuid).status < 2

\* C2, amended: every Project, Task and ActionGroup row whose line is printed
\* has trashed = 0 and status < 2.
C2_TaskRowsOpen ==
    \A k \in DOMAIN output :
        LET e == output[k]
        IN  (e.kind \in {"Project", "Task", "ActionGroup"} /\ IsRowLine(e))
                => TaskRowOf(e.uuid).trashed = 0 /\ TaskRowOf(e.uuid).status < 2

\* C2 witness: a finished run that printed a task of a database holding a
\* trashed row and a row of status 2 or more.
C2_Witness ==
    /\ pc = "exported"
    /\ \E k \in DOMAIN output : output[k].kind = "Task"
    /\ \E t \in db.TMTask : t.trashed = 1
    /\ \E t \in db.TMTask : t.status >= 2

kCookie1 == <<" ", "[", "#", "1", "]">>

\* C3: the line of a printed task that is no heading and is tagged
\* "Important" has the cookie " [#1]", and its tag suffix has no tag
\* "Important".
C3_ImportantIsCookie ==
    \A k \in DOMAIN output :
        (output[k].kind = "Task" /\ kImportant \in Range(output[k].loaded))
            => /\ Contains(output[k].text, kCookie1)
               /\ ~Contains(output[k].suffix, <<":">> \o kImportant \o <<":">>)

\* C3 witness: a printed task with other tags loaded before "Important".
C3_Witness ==
    \E k \in DOMAIN output :
        /\ output[k].kind = "Task"
        /\ Len(output[k].loaded) >= 3
        /\ output[k].loaded[3] = kImportant
        /\ output[k].suffix # <<>>

\* C4 as claimed: for the Work > Launch > Ship it database the whole output is
\* an empty line, "Work::" and "TODO [#1] Ship it".
C4_AsClaimed ==
    (db = FixtureDB /\ pc = "exported")
        => Str(Stdout(output)) = "\nWork::\nTODO [#1] Ship it\n"

\* C4, amended: for that database the whole output is the root area, the
\* Inbox, then the area, the project and the task, each under its stars, with
\* an empty line before every area and project line.
C4_FixtureOutput ==
    (db = FixtureDB /\ pc = "exported")
        => Str(Stdout(output))
             = "\n* no area:\n\n** TODO Inbox\n\n* Work:\n\n** TODO Launch\n*** TODO [#1] Ship it\n"

\* C4 witness: the export of that database has finished.
C4_Witness == db = FixtureDB /\ pc = "exported" /\ Len(output) = 5

\* C5: for a printed task whose checklistItemsCount is 0 no checklist query
\* is executed and no checklist line is printed under it.
C5_NoChecklistWhenCountZero ==
    \A k \in DOMAIN output :
        (/\ output[k].kind = "Task"
         /\ TaskRowOf(output[k].uuid).checklistItemsCount = Some(0))
            => /\ \A q \in Range(queries) :
                      ~(q.q = "items_of_task" /\ q.arg = output[k].uuid)
               /\ \A j \in DOMAIN output :
                      ~(output[j].kind = "CheckListItem" /\ output[j].parent = k)

\* C5 witness: a finished run that printed a task with count 0 although the
\* checklist table has rows for it.
C5_Witness ==
    /\ pc = "exported"
    /\ \E k \in DOMAIN output :
        /\ output[k].kind = "Task"
        /\ TaskRowOf(output[k].uuid).checklistItemsCount = Some(0)
        /\ \E i \in db.TMChecklistItem : i.task = output[k].uuid

\* the areas of the database without any row of type 1
AreasWithoutProjects ==
    {a \in db.TMArea : ~\E t \in db.TMTask : t.type = 1 /\ t.area = Some(a.uuid)}

AreaLines(a) == {k \in DOMAIN output : output[k].kind = "Area" /\ output[k].uuid = a.uuid}

\* C6 as claimed: under the line of an area without projects there is no
\* project line and no task line.
C6_AsClaimed ==
    \A a \in AreasWithoutProjects : \A k \in AreaLines(a) :
        \A j \in DOMAIN output :
            k \in Ancestors(output, j)
                => output[j].kind \notin {"Project", "Task", "ActionGroup"}

\* C6, amended: under the line of an area without projects there is no
\* project line, and the lines directly under it are those of tasks and
\* action groups whose area column is the area and whose project is null.
C6_OnlyAreaTasks ==
    \A a \in AreasWithoutProjects : \A k \in AreaLines(a) :
        \A j \in DOMAIN output :
            k \in Ancestors(output, j)
                => /\ output[j].kind # "Project"
                   /\ output[j].parent = k
                        => /\ output[j].kind \in {"Task", "ActionGroup"}
                           /\ TaskRowOf(output[j].uuid).area = Some(a.uuid)
                           /\ TaskRowOf(output[j].uuid).project = None

\* C6 witness: a finished run with an area without projects and a task line
\* under its line, in a database that has projects elsewhere.
C6_Witness ==
    /\ pc = "exported"
    /\ \E a \in AreasWithoutProjects : \E k \in AreaLines(a) :
        \E j \in DOMAIN output : output[j].parent = k /\ output[j].kind = "Task"
    /\ \E t \in db.TMTask : t.type = 1 /\ t.area # None

\* v packs a calendar date: the low seven bits are clear, and the fields
\* above them are a year 1..9999, a month and a day of that month.
IsPackedDate(v) ==
    LET y == v \div 65536
        m == (v \div 4096) % 16
        d == (v \div 128) % 32
    IN  /\ v % 128 = 0
        /\ y >= 1 /\ y <= 9999
        /\ m >= 1 /\ m <= 12
        /\ d >= 1 /\ d <= DaysInMonth(y, m)

\* C7: decoding a packed date and encoding the result again as
\* year*65536 + month*4096 + day*128 gives the packed date back.
C7_DateRoundTrip ==
    (IsPackedDate(ts_int) /\ parsed # None)
        => /\ parsed[1].ok
           /\ parsed[1].year * 65536 + parsed[1].month * 4096 + parsed[1].day * 128
                = ts_int

\* C7 witness: a leap day has been decoded.
C7_Witness ==
    /\ IsPackedDate(ts_int)
    /\ parsed # None
    /\ parsed[1].month = 2
    /\ parsed[1].day = 29

\* C8 as claimed: whenever export has been left after opening the
\* connection, by return or by exception, the connection is closed.
C8_AsClaimed == (pc \in {"exported", "raised"} /\ con # "none") => con = "closed"

\* C9 as claimed: when nothing was at the database path, no connection is
\* ever opened and nothing is printed.
C9_AsClaimed == ~db.hasTables => (con = "none" /\ output = <<>>)

Reserved == {kIdea, kImportant, kBlocked}

\* the tags of a rendered suffix " :t1:t2:"
SuffixTags(suffix) ==
    IF suffix = <<>> THEN <<>> ELSE Split(Slice(suffix, 3, Len(suffix) - 1), ":")

FirstAt(s, x) == Min({i \in DOMAIN s : s[i] = x})

\* tagseq is duplicate-free and lists, in the order of their first loading,
\* the normalised titles loaded that are not in skip
KeepsLoadOrder(tagseq, loaded, skip) ==
    LET norm == [i \in DOMAIN loaded |-> make_tag(loaded[i])]
    IN  /\ \A i, j \in DOMAIN tagseq : i # j => tagseq[i] # tagseq[j]
        /\ Range(tagseq) = Range(norm) \ skip
        /\ \A i, j \in DOMAIN tagseq :
               i < j => FirstAt(norm, tagseq[i]) < FirstAt(norm, tagseq[j])

\* C10 as claimed: the suffix of every printed area, project and task has none
\* of "Idea", "Important", "Blocked", has no tag twice and keeps load order.
C10_AsClaimed ==
    \A k \in DOMAIN output :
        output[k].kind \in {"Area", "Project", "Task"}
            => KeepsLoadOrder(SuffixTags(output[k].suffix), output[k].loaded, Reserved)

\* C10, amended: that holds of every printed project and task; the suffix of
\* an area has no tag twice and keeps load order, reserved titles included.
C10_ReservedFolded ==
    \A k \in DOMAIN output :
        /\ output[k].kind \in {"Project", "Task"}
            => KeepsLoadOrder(SuffixTags(output[k].suffix), output[k].loaded, Reserved)
        /\ output[k].kind = "Area"
            => KeepsLoadOrder(SuffixTags(output[k].suffix), output[k].loaded, {})

\* C10 witness: a printed project or task that loaded a reserved title first
\* and then two titles with one normal form.
C10_Witness ==
    \E k \in DOMAIN output :
        /\ output[k].kind \in {"Project", "Task"}
        /\ Len(output[k].loaded) = 3
        /\ output[k].loaded[1] \in Reserved
        /\ output[k].loaded[2] # output[k].loaded[3]
        /\ make_tag(output[k].loaded[2]) = make_tag(output[k].loaded[3])

AreaRowOf(uuid) == CHOOSE a \in db.TMArea : a.uuid = uuid

\* the lines of the root area, of the Inbox and of the areas of the database
IsRootLine(e) == e.kind = "Area" /\ e.uuid = "NULL"
IsInboxLine(e) == e.kind = "Project" /\ e.uuid = "NULL"
IsRealAreaLine(e) == e.kind = "Area" /\ IsRowLine(e)

\* C11: the line of the root area "no area" comes before the line of every
\* area of the database, and everything under the root before them too; under
\* the root the Inbox line and the lines of its tasks come before the line of
\* every project whose area is null, which is under the root as well; the
\* lines of the areas of the database are in the order of their index; a
\* finished run has printed the root, the Inbox and every area.
C11_RootAndInboxFirst ==
    /\ \A k \in DOMAIN output :
          IsRealAreaLine(output[k])
            => /\ IsRootLine(output[1]) /\ 1 < k
               /\ \A i \in DOMAIN output : 1 \in Ancestors(output, i) => i < k
               /\ \A j \in 1..(k - 1) :
                      IsRealAreaLine(output[j])
                        => AreaRowOf(output[j].uuid).index
                             <= AreaRowOf(output[k].uuid).index
    /\ \A k \in DOMAIN output :
          (/\ output[k].kind = "Project"
           /\ IsRowLine(output[k])
           /\ TaskRowOf(output[k].uuid).area = None)
            => /\ IsRootLine(output[1]) /\ output[k].parent = 1
               /\ IsInboxLine(output[2]) /\ output[2].parent = 1 /\ 2 < k
               /\ \A i \in DOMAIN output : 2 \in Ancestors(output, i) => i < k
    /\ \A k \in DOMAIN output :
          (IsRootLine(output[k]) => k = 1) /\ (IsInboxLine(output[k]) => k = 2)
    /\ pc = "exported"
          => /\ Len(output) >= 2
             /\ IsRootLine(output[1]) /\ IsInboxLine(output[2])
             /\ \A a \in db.TMArea : Cardinality(AreaLines(a)) = 1

\* C11 witness: a finished run that printed a task of the Inbox, then a
\* project without area, then three areas, two of them with one index.
C11_Witness ==
    /\ pc = "exported"
    /\ \E i, k \in DOMAIN output :
          /\ output[i].kind = "Task" /\ output[i].parent = 2
          /\ output[k].kind = "Project" /\ IsRowLine(output[k])
          /\ TaskRowOf(output[k].uuid).area = None
    /\ \E a, b, c \in db.TMArea :
          /\ a # b /\ a.index = b.index /\ c.index < a.index
          /\ \E j \in AreaLines(a), k \in AreaLines(b), l \in AreaLines(c) :
                l < k /\ k < j

\* C12 as claimed: no Project, Task or ActionGroup row of the database has
\* two lines in the output of one run, whatever its area, project and
\* heading columns hold.
C12_AsClaimed ==
    \A j, k \in DOMAIN output :
        (/\ j < k
         /\ output[j].kind \in {"Project", "Task", "ActionGroup"}
         /\ output[k].kind \in {"Project", "Task", "ActionGroup"}
         /\ IsRowLine(output[j]))
            => output[j].uuid # output[k].uuid

====
